---- MODULE Spec2Model ----
(***************************************************************************)
(* RealTimePnLEngine (src/core/pnl_engine.py) over the Trade and Position  *)
(* data model (src/models/domain.py).                                      *)
(*                                                                         *)
(* The engine is single-threaded and synchronous: every public method is   *)
(* one atomic action.  Quantities are Python ints; prices, avg_cost and    *)
(* PnL are Python floats, modelled as exact rationals <<num, den>> in      *)
(* lowest terms with den > 0 (binary rounding is not modelled).            *)
(* realized_pnl and last_prices are defaultdict(float): a subscript read   *)
(* of a missing key inserts the key with value 0.0, and that insertion is  *)
(* part of the action that performs the read.  A query's return value is   *)
(* an operator (...Ret) over the state the query is called in; the query's *)
(* action carries what the call does to the tables.  logged is the batch   *)
(* of records the most recent logging call handed to the logger.           *)
(***************************************************************************)
EXTENDS Integers, Sequences, FiniteSets, TLC

\* Bounds of the exploration.
MaxTrades == 3
MaxQty == 2
MaxPrice == 1
\* Writes a caller makes to a Position it was handed.
MaxWrites == 1

Symbols == {"AAPL", "MSFT"}
Sides == {"BUY", "SELL"}
\* Trade inputs: qty -1 and 0 and price -1 are the inputs on_trade must reject.
QtyInputs == -1..MaxQty
PriceInputs == -1..MaxPrice
\* on_price accepts any number, negative and zero included.
PriceTicks == -1..MaxPrice

VARIABLES
    positions,      \* self.positions: symbol -> Position (plain dict)
    realized_pnl,   \* self.realized_pnl: symbol -> float (defaultdict)
    last_prices,    \* self.last_prices: symbol -> float (defaultdict)
    logged,         \* logger sink: the records emitted by the last call that logged
    nTrades,        \* history: number of accepted trades so far
    sumSigned,      \* history: per symbol, sum of signed quantities of accepted trades
    sumCost,        \* history: per symbol, sum of signed_qty * price of accepted trades
    sidesSeen,      \* history: per symbol, the sides of the accepted trades
    priced,         \* history: symbols for which on_price has been called
    lastTick,       \* history: per priced symbol, the price of the latest on_price call
    tradePrices,    \* history: per symbol, the prices of the accepted trades
    held,           \* caller: the Position object the caller kept from a query
    heldCall,       \* caller: the call that returned held, while nothing was called since
    nWrites         \* caller: number of writes the caller made to a returned Position

engine == <<positions, realized_pnl, last_prices>>
history == <<nTrades, sumSigned, sumCost, sidesSeen, priced, lastTick, tradePrices>>
caller == <<held, heldCall, nWrites>>
vars == <<positions, realized_pnl, last_prices, logged,
          nTrades, sumSigned, sumCost, sidesSeen, priced, lastTick,
          tradePrices, held, heldCall, nWrites>>

----------------------------------------------------------------------------
(* float arithmetic, as exact rationals *)

Abs(x) == IF x < 0 THEN -x ELSE x

RECURSIVE Gcd(_, _)
Gcd(a, b) == IF b = 0 THEN a ELSE Gcd(b, a % b)

\* n / d for d # 0, in lowest terms with a positive denominator.
Rat(n, d) ==
    LET g == Gcd(Abs(n), Abs(d))
        s == IF d < 0 THEN -1 ELSE 1
    IN  <<(s * n) \div g, (s * d) \div g>>

Zero == <<0, 1>>
FromInt(i) == <<i, 1>>
RAdd(x, y) == Rat(x[1] * y[2] + y[1] * x[2], x[2] * y[2])
RSub(x, y) == Rat(x[1] * y[2] - y[1] * x[2], x[2] * y[2])
RScale(i, x) == Rat(i * x[1], x[2])
RDivInt(x, i) == Rat(x[1], x[2] * i)

----------------------------------------------------------------------------
(* dict and defaultdict *)

EmptyMap == [s \in {} |-> Zero]

\* m[k] = v
Put(m, k, v) == [x \in (DOMAIN m) \cup {k} |-> IF x = k THEN v ELSE m[x]]

\* The value a defaultdict(float) subscript m[k] reads.
Lookup(m, k) == IF k \in DOMAIN m THEN m[k] ELSE Zero

\* The defaultdict after a subscript read m[k]: __missing__ stores 0.0 under k.
Touch(m, k) == IF k \in DOMAIN m THEN m ELSE Put(m, k, Zero)

----------------------------------------------------------------------------
(* models/domain.py *)

SignedQty(side, qty) == IF side = "BUY" THEN qty ELSE -qty

\* Position(account_id, symbol): qty = 0, avg_cost = 0.0
NewPosition(account_id, symbol) ==
    [account_id |-> account_id, symbol |-> symbol, qty |-> 0, avg_cost |-> Zero]

UnrealizedPnl(pos, current_price) ==
    IF pos.qty = 0 THEN Zero
    ELSE RScale(pos.qty, RSub(current_price, pos.avg_cost))

NotionalValue(pos, current_price) == RScale(pos.qty, current_price)

\* Variant: a flat position counts as long.
IsLongOrFlat(pos) == pos.qty >= 0
IsLong(pos) == pos.qty > 0
IsShort(pos) == pos.qty < 0
IsOpen(pos) == pos.qty # 0

----------------------------------------------------------------------------
(* core/pnl_engine.py: trade processing *)

AccountId == "system"

\* The branch test of on_trade.
\* Variant: a zero product goes to the opposite-direction branch.
SameDirectionStrict(prev_qty, signed_qty) == prev_qty * signed_qty > 0
SameDirection(prev_qty, signed_qty) == prev_qty * signed_qty >= 0

\* pos.avg_cost after _handle_same_direction_trade.
\* Variant: the new cost is the trade price, unweighted.
SameDirectionAvgCostNoWeight(pos, signed_qty, trade_price) ==
    IF pos.qty + signed_qty # 0 THEN trade_price ELSE pos.avg_cost
\* Variant: the weights are the magnitudes, the divisor the signed total.
SameDirectionAvgCostAbsWeights(pos, signed_qty, trade_price) ==
    IF pos.qty + signed_qty # 0
    THEN RDivInt(RAdd(RScale(Abs(pos.qty), pos.avg_cost),
                      RScale(Abs(signed_qty), trade_price)), pos.qty + signed_qty)
    ELSE pos.avg_cost
SameDirectionAvgCost(pos, signed_qty, trade_price) ==
    LET prev_qty == pos.qty
        prev_cost == pos.avg_cost
        new_qty == prev_qty + signed_qty
    IN  IF new_qty # 0
        THEN RDivInt(RAdd(RScale(prev_qty, prev_cost),
                          RScale(signed_qty, trade_price)), new_qty)
        ELSE prev_cost

\* Variant: the whole trade quantity counts as closed.
ClosingQtyWhole(prev_qty, signed_qty) == Abs(signed_qty)
ClosingQty(prev_qty, signed_qty) ==
    IF Abs(prev_qty) <= Abs(signed_qty) THEN Abs(prev_qty) ELSE Abs(signed_qty)

\* pnl_increment of _realize_pnl.
\* Variant: the sign of the closed position is ignored.
PnlIncrementUnsigned(closing_qty, trade_price, prev_cost, prev_qty) ==
    RScale(closing_qty, RSub(trade_price, prev_cost))
PnlIncrement(closing_qty, trade_price, prev_cost, prev_qty) ==
    LET sign == IF prev_qty > 0 THEN 1 ELSE -1
    IN  RScale(sign, RScale(closing_qty, RSub(trade_price, prev_cost)))

\* self.realized_pnl after _realize_pnl
\* Variant: the increment is booked to every symbol of the table.
RealizePnlEverySymbol(rp, symbol, closing_qty, trade_price, prev_cost, prev_qty) ==
    [x \in (DOMAIN rp) \cup {symbol} |->
        RAdd(Lookup(rp, x),
             PnlIncrement(closing_qty, trade_price, prev_cost, prev_qty))]
RealizePnl(rp, symbol, closing_qty, trade_price, prev_cost, prev_qty) ==
    Put(rp, symbol,
        RAdd(Lookup(rp, symbol),
             PnlIncrement(closing_qty, trade_price, prev_cost, prev_qty)))

\* pos.avg_cost after _handle_opposite_direction_trade.
\* Variants: no reset on a full close; a partial close re-averages; the
\* full-close branch is missing.
OppositeDirectionAvgCostKeep(pos, signed_qty, trade_price) ==
    IF pos.qty + signed_qty = 0 THEN pos.avg_cost
    ELSE IF pos.qty * (pos.qty + signed_qty) > 0 THEN pos.avg_cost
    ELSE trade_price
OppositeDirectionAvgCostBlend(pos, signed_qty, trade_price) ==
    IF pos.qty + signed_qty = 0 THEN Zero
    ELSE IF pos.qty * (pos.qty + signed_qty) > 0
         THEN SameDirectionAvgCost(pos, signed_qty, trade_price)
    ELSE trade_price
OppositeDirectionAvgCostNoReset(pos, signed_qty, trade_price) ==
    IF pos.qty * (pos.qty + signed_qty) > 0 THEN pos.avg_cost ELSE trade_price
OppositeDirectionAvgCost(pos, signed_qty, trade_price) ==
    LET prev_qty == pos.qty
        prev_cost == pos.avg_cost
        new_qty == prev_qty + signed_qty
    IN  IF new_qty = 0 THEN Zero
        ELSE IF prev_qty * new_qty > 0 THEN prev_cost
        ELSE trade_price

\* self.realized_pnl after _handle_opposite_direction_trade.
OppositeDirectionRealized(rp, symbol, pos, signed_qty, trade_price) ==
    RealizePnl(rp, symbol, ClosingQty(pos.qty, signed_qty), trade_price,
               pos.avg_cost, pos.qty)

\* pos.qty after on_trade's final update.
\* Variant: the final update assigns instead of adding.
NewQtyOverwrite(prev_qty, signed_qty) == signed_qty
NewQty(prev_qty, signed_qty) == prev_qty + signed_qty

\* The two early returns of on_trade.
\* Variant: a zero quantity passes the first check.
RejectsQtyNegativeOnly(qty) == qty < 0
RejectsQty(qty) == qty <= 0
RejectsPrice(price) == price < 0

\* The Position on_trade works on: the one stored in ps, or the one it inserts.
TradePosition(ps, sym) ==
    IF sym \in DOMAIN ps THEN ps[sym] ELSE NewPosition(AccountId, sym)

\* self.positions after an accepted on_trade that found it as ps.
\* Variant: a position that becomes flat is deleted from the table.
OnTradePositionsDropsFlat(ps, sym, side, qty, price) ==
    LET signed_qty == SignedQty(side, qty)
        trade_price == FromInt(price)
        pos == TradePosition(ps, sym)
        prev_qty == pos.qty
        cost == IF SameDirection(prev_qty, signed_qty)
                THEN SameDirectionAvgCost(pos, signed_qty, trade_price)
                ELSE OppositeDirectionAvgCost(pos, signed_qty, trade_price)
    IN  IF NewQty(prev_qty, signed_qty) = 0
        THEN [x \in (DOMAIN ps) \ {sym} |-> ps[x]]
        ELSE Put(ps, sym,
                 [pos EXCEPT !.avg_cost = cost, !.qty = NewQty(prev_qty, signed_qty)])
OnTradePositions(ps, sym, side, qty, price) ==
    LET signed_qty == SignedQty(side, qty)
        trade_price == FromInt(price)
        pos == TradePosition(ps, sym)
        prev_qty == pos.qty
        cost == IF SameDirection(prev_qty, signed_qty)
                THEN SameDirectionAvgCost(pos, signed_qty, trade_price)
                ELSE OppositeDirectionAvgCost(pos, signed_qty, trade_price)
    IN  Put(ps, sym,
            [pos EXCEPT !.avg_cost = cost, !.qty = NewQty(prev_qty, signed_qty)])

\* self.realized_pnl after an accepted on_trade that found the tables as ps, rp.
\* Variant: PnL is realized on every trade, whatever its direction.
OnTradeRealizedAlways(ps, rp, sym, side, qty, price) ==
    OppositeDirectionRealized(rp, sym, TradePosition(ps, sym),
                              SignedQty(side, qty), FromInt(price))
OnTradeRealized(ps, rp, sym, side, qty, price) ==
    LET signed_qty == SignedQty(side, qty)
        pos == TradePosition(ps, sym)
    IN  IF SameDirection(pos.qty, signed_qty) THEN rp
        ELSE OppositeDirectionRealized(rp, sym, pos, signed_qty, FromInt(price))

\* The records an accepted on_trade logs: the trade, what its branch did, the update.
OnTradeLog(sym, side, qty, price) ==
    LET prev_qty == TradePosition(positions, sym).qty
        signed_qty == SignedQty(side, qty)
        new_qty == prev_qty + signed_qty
    IN  <<[msg |-> "Trade", symbol |-> sym, side |-> side, qty |-> qty,
           price |-> price]>>
        \o (IF SameDirection(prev_qty, signed_qty)
            THEN IF new_qty # 0 THEN <<[msg |-> "avg_cost updated"]>> ELSE <<>>
            ELSE <<[msg |-> "Realized PnL"]>> \o
                 (IF new_qty = 0 THEN <<[msg |-> "Position fully closed"]>>
                  ELSE IF prev_qty * new_qty > 0 THEN <<[msg |-> "Partial close"]>>
                  ELSE <<[msg |-> "Direction flipped"]>>))
        \o <<[msg |-> "Position updated"]>>

OnTrade(sym, side, qty, price) ==
    IF RejectsQty(qty)
    THEN /\ logged' = <<[msg |-> "Ignoring trade", why |-> "qty"]>>
         /\ UNCHANGED <<engine, history>>
    ELSE IF RejectsPrice(price)
    THEN /\ logged' = <<[msg |-> "Ignoring trade", why |-> "negative price"]>>
         /\ UNCHANGED <<engine, history>>
    ELSE /\ nTrades < MaxTrades
         /\ positions' = OnTradePositions(positions, sym, side, qty, price)
         /\ realized_pnl' = OnTradeRealized(positions, realized_pnl, sym, side, qty, price)
         /\ UNCHANGED last_prices
         /\ logged' = OnTradeLog(sym, side, qty, price)
         /\ nTrades' = nTrades + 1
         /\ sumSigned' = [sumSigned EXCEPT
                            ![sym] = @ + (IF side = "BUY" THEN qty ELSE -qty)]
         /\ sumCost' = [sumCost EXCEPT
                            ![sym] = @ + (IF side = "BUY" THEN qty ELSE -qty) * price]
         /\ sidesSeen' = [sidesSeen EXCEPT ![sym] = @ \cup {side}]
         /\ tradePrices' = [tradePrices EXCEPT ![sym] = @ \cup {price}]
         /\ UNCHANGED <<priced, lastTick>>

----------------------------------------------------------------------------
(* core/pnl_engine.py: price update *)

\* Variant: a negative price is dropped.
OnPriceDropsNegative(symbol, price) ==
    /\ last_prices' = IF price < 0 THEN last_prices
                      ELSE Put(last_prices, symbol, FromInt(price))
    /\ priced' = priced \cup {symbol}
    /\ lastTick' = [s \in priced \cup {symbol} |-> IF s = symbol THEN price ELSE lastTick[s]]
    /\ UNCHANGED <<positions, realized_pnl, logged, nTrades, sumSigned, sumCost, sidesSeen,
                   tradePrices>>
OnPrice(symbol, price) ==
    /\ last_prices' = Put(last_prices, symbol, FromInt(price))
    /\ priced' = priced \cup {symbol}
    /\ lastTick' = [s \in priced \cup {symbol} |-> IF s = symbol THEN price ELSE lastTick[s]]
    /\ UNCHANGED <<positions, realized_pnl, logged, nTrades, sumSigned, sumCost, sidesSeen,
                   tradePrices>>

----------------------------------------------------------------------------
(* core/pnl_engine.py: queries *)

RECURSIVE SumOver(_, _)
\* sum(f[k] for k in keys), f a function to rationals
SumOver(f, keys) ==
    IF keys = {} THEN Zero
    ELSE LET k == CHOOSE x \in keys : TRUE
         IN  RAdd(f[k], SumOver(f, keys \ {k}))

RECURSIVE TouchAll(_, _)
\* The defaultdict after a subscript read of every key in keys.
TouchAll(m, keys) ==
    IF keys = {} THEN m
    ELSE LET k == CHOOSE x \in keys : TRUE
         IN  TouchAll(Touch(m, k), keys \ {k})

GetPositionRet(symbol) ==
    IF symbol \in DOMAIN positions THEN positions[symbol]
    ELSE NewPosition(AccountId, symbol)

\* Variant: the Position built for a missing symbol is stored (setdefault).
GetPositionInserting(symbol) ==
    /\ positions' = IF symbol \in DOMAIN positions THEN positions
                    ELSE Put(positions, symbol, NewPosition(AccountId, symbol))
    /\ UNCHANGED <<realized_pnl, last_prices, logged, history, caller>>
GetPosition(symbol) == UNCHANGED vars

\* The keys get_unrealized_pnl(symbol) reads by subscript in self.last_prices.
UnrealizedReads(symbol) ==
    IF GetPositionRet(symbol).qty = 0 THEN {} ELSE {symbol}

GetUnrealizedPnlRet(symbol) ==
    LET pos == GetPositionRet(symbol)
    IN  IF pos.qty = 0 THEN Zero
        ELSE LET last_px == Lookup(last_prices, symbol)
             IN  UnrealizedPnl(pos, last_px)

GetUnrealizedPnl(symbol) ==
    /\ last_prices' = TouchAll(last_prices, UnrealizedReads(symbol))
    /\ UNCHANGED <<positions, realized_pnl, logged, history>>

\* The keys of last_prices read while visiting every symbol of self.positions.
OpenSymbols == UNION {UnrealizedReads(sym) : sym \in DOMAIN positions}

\* Variant: only the open positions are summed.
GetTotalPnlRetOpenOnly ==
    SumOver([sym \in DOMAIN positions |->
                RAdd(Lookup(realized_pnl, sym), GetUnrealizedPnlRet(sym))],
            {sym \in DOMAIN positions : IsOpen(positions[sym])})
GetTotalPnlRet ==
    SumOver([sym \in DOMAIN positions |->
                RAdd(Lookup(realized_pnl, sym), GetUnrealizedPnlRet(sym))],
            DOMAIN positions)

GetTotalPnl ==
    /\ realized_pnl' = TouchAll(realized_pnl, DOMAIN positions)
    /\ last_prices' = TouchAll(last_prices, OpenSymbols)
    /\ UNCHANGED <<positions, logged, history>>

GetLongPositionsRet ==
    [sym \in {s \in DOMAIN positions : IsLong(positions[s])} |-> positions[sym]]

GetShortPositionsRet ==
    [sym \in {s \in DOMAIN positions : IsShort(positions[s])} |-> positions[sym]]

GetOpenPositionsRet ==
    [sym \in {s \in DOMAIN positions : IsOpen(positions[s])} |-> positions[sym]]

GetLongPositions == UNCHANGED vars
GetShortPositions == UNCHANGED vars
GetOpenPositions == UNCHANGED vars

\* Variant: the total leaves the unrealized part out.
GetPnlBySymbolRetRealizedTotal(symbol) ==
    [realized |-> Lookup(realized_pnl, symbol),
     unrealized |-> GetUnrealizedPnlRet(symbol),
     total |-> Lookup(realized_pnl, symbol)]
GetPnlBySymbolRet(symbol) ==
    [realized |-> Lookup(realized_pnl, symbol),
     unrealized |-> GetUnrealizedPnlRet(symbol),
     total |-> RAdd(Lookup(realized_pnl, symbol), GetUnrealizedPnlRet(symbol))]

GetPnlBySymbol(symbol) ==
    /\ realized_pnl' = Touch(realized_pnl, symbol)
    /\ last_prices' = TouchAll(last_prices, UnrealizedReads(symbol))
    /\ UNCHANGED <<positions, logged, history>>

\* price_map.get(symbol, 0.0) of a caller-supplied plain dict
MapGet(price_map, symbol) ==
    IF symbol \in DOMAIN price_map THEN price_map[symbol] ELSE Zero

\* Variant: the engine's own last_prices are used, not the argument.
GetTotalNotionalRetOwnPrices(price_map) ==
    SumOver([sym \in DOMAIN positions |->
                NotionalValue(positions[sym], Lookup(last_prices, positions[sym].symbol))],
            DOMAIN positions)
GetTotalNotionalRet(price_map) ==
    SumOver([sym \in DOMAIN positions |->
                NotionalValue(positions[sym], MapGet(price_map, positions[sym].symbol))],
            DOMAIN positions)

GetTotalNotional(price_map) == UNCHANGED vars

\* log_summary(symbol) with a symbol; "None" stands for log_summary().
LogSummary(symbol) ==
    /\ IF symbol # "None"
       THEN /\ realized_pnl' = Touch(realized_pnl, symbol)
            /\ last_prices' = TouchAll(last_prices, UnrealizedReads(symbol))
       ELSE /\ realized_pnl' = TouchAll(realized_pnl, DOMAIN positions)
            /\ last_prices' = TouchAll(last_prices, OpenSymbols)
    /\ logged' = <<[msg |-> "summary", symbol |-> symbol]>>
    /\ UNCHANGED <<positions, history>>

\* The price maps handed to get_total_notional.
PriceMaps ==
    UNION {[S -> {FromInt(p) : p \in {0, MaxPrice}}] : S \in SUBSET Symbols}

----------------------------------------------------------------------------
(* a caller that keeps what a query returned *)

\* Position.position_id is uuid4(): a value drawn anew for every Position built.
PositionIds == {"id-a", "id-b"}

\* What the caller can hold: nothing, the object stored under
\* self.positions[symbol], or an object that only the caller refers to.
NoRef == [kind |-> "none"]
StoredRef(symbol) == [kind |-> "stored", symbol |-> symbol]
FreshRef(pos, position_id) ==
    [kind |-> "fresh", pos |-> pos, position_id |-> position_id]

\* The fields of the object behind a reference, the table being ps.
Deref(ref, ps) == IF ref.kind = "stored" THEN ps[ref.symbol] ELSE ref.pos

\* self.positions.get(symbol, Position(...)): the stored object itself when there
\* is one, otherwise the Position just built, with the id drawn for it.
GetPositionRef(symbol, position_id) ==
    IF symbol \in DOMAIN positions THEN StoredRef(symbol)
    ELSE FreshRef(NewPosition(AccountId, symbol), position_id)

\* get_position(symbol), the caller keeping the result.
GetPositionKeep(symbol) ==
    /\ \E position_id \in PositionIds : held' = GetPositionRef(symbol, position_id)
    /\ heldCall' = <<"get_position", symbol>>
    /\ UNCHANGED <<engine, logged, history, nWrites>>

\* get_long_positions() / get_short_positions() / get_open_positions(), the
\* caller keeping one value of the returned dict: the comprehension puts the
\* stored objects into the new dict.
GetLongPositionsKeep ==
    /\ \E sym \in DOMAIN GetLongPositionsRet : held' = StoredRef(sym)
    /\ heldCall' = <<"get_long_positions">>
    /\ UNCHANGED <<engine, logged, history, nWrites>>

GetShortPositionsKeep ==
    /\ \E sym \in DOMAIN GetShortPositionsRet : held' = StoredRef(sym)
    /\ heldCall' = <<"get_short_positions">>
    /\ UNCHANGED <<engine, logged, history, nWrites>>

GetOpenPositionsKeep ==
    /\ \E sym \in DOMAIN GetOpenPositionsRet : held' = StoredRef(sym)
    /\ heldCall' = <<"get_open_positions">>
    /\ UNCHANGED <<engine, logged, history, nWrites>>

\* The caller assigns held.qty = qty: Position is a plain (unfrozen) dataclass.
CallerSetsQty(qty) ==
    /\ held # NoRef
    /\ nWrites < MaxWrites
    /\ nWrites' = nWrites + 1
    /\ IF held.kind = "stored"
       THEN /\ positions' = [positions EXCEPT ![held.symbol].qty = qty]
            /\ UNCHANGED held
       ELSE /\ held' = [held EXCEPT !.pos.qty = qty]
            /\ UNCHANGED positions
    /\ heldCall' = <<>>
    /\ UNCHANGED <<realized_pnl, last_prices, logged, history>>

----------------------------------------------------------------------------

Init ==
    /\ positions = EmptyMap
    /\ realized_pnl = EmptyMap
    /\ last_prices = EmptyMap
    /\ logged = <<[msg |-> "initialized"]>>
    /\ nTrades = 0
    /\ sumSigned = [s \in Symbols |-> 0]
    /\ sumCost = [s \in Symbols |-> 0]
    /\ sidesSeen = [s \in Symbols |-> {}]
    /\ priced = {}
    /\ lastTick = [s \in {} |-> 0]
    /\ tradePrices = [s \in Symbols |-> {}]
    /\ held = NoRef
    /\ heldCall = <<>>
    /\ nWrites = 0

\* The engine's operations, called by a caller that keeps no returned object.
Next ==
    \/ /\ \E sym \in Symbols, side \in Sides, qty \in QtyInputs, price \in PriceInputs :
             OnTrade(sym, side, qty, price)
       /\ UNCHANGED caller
    \/ /\ \E sym \in Symbols, price \in PriceTicks : OnPrice(sym, price)
       /\ UNCHANGED caller
    \/ \E sym \in Symbols : GetPosition(sym)
    \/ /\ \E sym \in Symbols : GetUnrealizedPnl(sym)
       /\ UNCHANGED caller
    \/ GetTotalPnl /\ UNCHANGED caller
    \/ GetLongPositions
    \/ GetShortPositions
    \/ GetOpenPositions
    \/ /\ \E sym \in Symbols : GetPnlBySymbol(sym)
       /\ UNCHANGED caller
    \/ \E price_map \in PriceMaps : GetTotalNotional(price_map)
    \/ /\ \E sym \in Symbols \cup {"None"} : LogSummary(sym)
       /\ UNCHANGED caller

Spec == Init /\ [][Next]_vars

\* The engine driven by trades alone.
NextTrades ==
    /\ \E sym \in Symbols, side \in Sides, qty \in QtyInputs, price \in PriceInputs :
          OnTrade(sym, side, qty, price)
    /\ UNCHANGED caller

SpecTrades == Init /\ [][NextTrades]_vars

\* The engine driven by trades, used by a caller that keeps, and may write to,
\* returned Positions.
NextCaller ==
    \/ /\ \E sym \in Symbols, side \in Sides, qty \in QtyInputs, price \in PriceInputs :
             OnTrade(sym, side, qty, price)
       /\ heldCall' = <<>>
       /\ UNCHANGED <<held, nWrites>>
    \/ \E sym \in Symbols : GetPositionKeep(sym)
    \/ GetLongPositionsKeep
    \/ GetShortPositionsKeep
    \/ GetOpenPositionsKeep
    \/ \E qty \in -MaxQty..MaxQty : CallerSetsQty(qty)

SpecCaller == Init /\ [][NextCaller]_vars

----------------------------------------------------------------------------
(* Properties *)

\* What the tables hold for a symbol, with the defaults of an absent entry.
QtyOf(s) == IF s \in DOMAIN positions THEN positions[s].qty ELSE 0
CostOf(s) == IF s \in DOMAIN positions THEN positions[s].avg_cost ELSE Zero
RealizedOf(s) == IF s \in DOMAIN realized_pnl THEN realized_pnl[s] ELSE Zero
\* realized_pnl[s] after the step
RealizedAfter(s) == IF s \in DOMAIN realized_pnl' THEN realized_pnl'[s] ELSE Zero

\* The step is an accepted on_trade; its Trade is the first record it logged.
AcceptedTradeStep == nTrades' = nTrades + 1
TradeSignedQty(t) == IF t.side = "BUY" THEN t.qty ELSE -t.qty
SignOf(i) == IF i > 0 THEN 1 ELSE IF i < 0 THEN -1 ELSE 0
Msgs == {logged[i].msg : i \in DOMAIN logged}

\* C1: every accepted trade leaves positions[sym].qty at the pre-trade qty plus
\* the trade's signed quantity, whichever branch ran, so in every state qty is
\* the sum of the signed quantities of the accepted trades of the symbol.
C1_QtyIsSumOfSignedQty ==
    /\ [](\A s \in Symbols : QtyOf(s) = sumSigned[s])
    /\ [][AcceptedTradeStep =>
            LET t == logged'[1]
            IN  /\ t.symbol \in DOMAIN positions'
                /\ positions'[t.symbol].qty = QtyOf(t.symbol) + TradeSignedQty(t)]_vars

\* C1 witness: a third accepted trade flipped AAPL to short 1, after both sides traded.
C1_Witness ==
    /\ nTrades = 3
    /\ sidesSeen["AAPL"] = {"BUY", "SELL"}
    /\ "Direction flipped" \in Msgs
    /\ logged[1].symbol = "AAPL"
    /\ QtyOf("AAPL") = -1

\* C2: in every reachable state a position with qty = 0 has avg_cost = 0.
C2_FlatHasZeroCost ==
    \A s \in DOMAIN positions : positions[s].qty = 0 => positions[s].avg_cost = Zero

\* C2 witness: a position opened at a non-zero cost, then closed by its last
\* trade, is in the table flat, after a price tick and a touching query.
C2_Witness ==
    /\ "AAPL" \in DOMAIN positions
    /\ positions["AAPL"].qty = 0
    /\ sumCost["AAPL"] # 0
    /\ "AAPL" \in priced
    /\ "AAPL" \in DOMAIN realized_pnl

C4_FlipRealizesClosedPortion ==
    [][AcceptedTradeStep =>
        LET t == logged'[1]
            s == t.symbol
            signed == TradeSignedQty(t)
            prev_qty == QtyOf(s)
            prev_cost == CostOf(s)
        IN  (prev_qty * signed < 0 /\ Abs(signed) > Abs(prev_qty)) =>
              /\ RealizedAfter(s) =
                   RAdd(RealizedOf(s),
                        RScale(Abs(prev_qty) * SignOf(prev_qty),
                               RSub(FromInt(t.price), prev_cost)))
              /\ SignOf(positions'[s].qty) = -SignOf(prev_qty)
              /\ positions'[s].avg_cost = FromInt(t.price)
      ]_vars

\* C4 witness: AAPL went long, flipped short, and flipped long again at the
\* third trade, each flip at a price different from the cost it closed.
C4_Witness ==
    /\ nTrades = 3
    /\ "MSFT" \notin DOMAIN positions
    /\ "Direction flipped" \in Msgs
    /\ logged[1].side = "BUY"
    /\ logged[1].qty = 2
    /\ QtyOf("AAPL") = 1
    /\ RealizedOf("AAPL") = FromInt(2)

\* C5: a trade opposite to the position and strictly smaller than it leaves
\* avg_cost and the sign of the position unchanged and adds
\* |signed_qty| * (price - prev_cost) * sign(prev_qty) to realized_pnl[sym].
C5_PartialCloseKeepsCost ==
    [][AcceptedTradeStep =>
        LET t == logged'[1]
            s == t.symbol
            signed == TradeSignedQty(t)
            prev_qty == QtyOf(s)
            prev_cost == CostOf(s)
        IN  (prev_qty * signed < 0 /\ Abs(signed) < Abs(prev_qty)) =>
              /\ positions'[s].avg_cost = prev_cost
              /\ SignOf(positions'[s].qty) = SignOf(prev_qty)
              /\ RealizedAfter(s) =
                   RAdd(RealizedOf(s),
                        RScale(Abs(signed) * SignOf(prev_qty),
                               RSub(FromInt(t.price), prev_cost)))
      ]_vars

\* C5 witness: a short of 3 built at two prices (cost 2/3) was partly covered.
C5_Witness ==
    /\ "Partial close" \in Msgs
    /\ logged[1].symbol = "AAPL"
    /\ logged[1].side = "BUY"
    /\ QtyOf("AAPL") < 0
    /\ CostOf("AAPL")[2] = 3
    /\ RealizedOf("AAPL") # Zero

\* C6: one opposite trade of exactly the position's size Q at price P adds
\* Q*(P-C) to realized_pnl[sym] for a long held at cost C and Q*(C-P) for a
\* short, and leaves qty = 0 and avg_cost = 0.
C6_FullCloseRealizes ==
    [][AcceptedTradeStep =>
        LET t == logged'[1]
            s == t.symbol
            signed == TradeSignedQty(t)
            prev_qty == QtyOf(s)
            prev_cost == CostOf(s)
            P == FromInt(t.price)
        IN  (prev_qty # 0 /\ signed = -prev_qty) =>
              /\ RealizedAfter(s) =
                   RAdd(RealizedOf(s),
                        IF prev_qty > 0
                        THEN RScale(t.qty, RSub(P, prev_cost))
                        ELSE RScale(t.qty, RSub(prev_cost, P)))
              /\ positions'[s].qty = 0
              /\ positions'[s].avg_cost = Zero
      ]_vars

\* C6 witness: a short of 2 sold at two prices was covered in one trade, at a loss.
C6_Witness ==
    /\ "Position fully closed" \in Msgs
    /\ logged[1].symbol = "AAPL"
    /\ logged[1].side = "BUY"
    /\ logged[1].qty = 2
    /\ nTrades = 3
    /\ "MSFT" \notin DOMAIN positions
    /\ QtyOf("AAPL") = 0
    /\ RealizedOf("AAPL") = FromInt(-1)

C8_UnrealizedZeroWithoutPrice ==
    \A s \in Symbols :
        GetUnrealizedPnlRet(s) =
            IF s \notin priced \/ QtyOf(s) = 0 THEN Zero
            ELSE RScale(QtyOf(s), RSub(last_prices[s], CostOf(s)))

\* C9: every query leaves positions, realized_pnl and last_prices unchanged,
\* key sets included.
C9_QueriesAreReadOnly ==
    [][( \/ \E s \in Symbols : GetPosition(s)
         \/ \E s \in Symbols : GetUnrealizedPnl(s)
         \/ GetTotalPnl
         \/ \E s \in Symbols : GetPnlBySymbol(s)
         \/ GetLongPositions \/ GetShortPositions \/ GetOpenPositions
         \/ \E m \in PriceMaps : GetTotalNotional(m)
         \/ \E s \in Symbols \cup {"None"} : LogSummary(s) )
        => /\ positions' = positions
           /\ realized_pnl' = realized_pnl
           /\ last_prices' = last_prices
      ]_vars

\* C10: the value of realized_pnl[sym] changes only in an accepted on_trade for
\* sym whose signed quantity has the opposite sign to the pre-trade qty of sym.
C10_RealizedChangesOnlyOnOppositeTrade ==
    [][\A s \in Symbols :
          RealizedAfter(s) # RealizedOf(s) =>
             /\ AcceptedTradeStep
             /\ logged'[1].symbol = s
             /\ QtyOf(s) * TradeSignedQty(logged'[1]) < 0
      ]_vars

\* C10 witness: realized PnL of AAPL is non-zero after an opposite trade, and
\* the last call was a summary that read the tables.
C10_Witness ==
    /\ RealizedOf("AAPL") # Zero
    /\ logged[1].msg = "summary"
    /\ "AAPL" \in priced
    /\ "MSFT" \in DOMAIN realized_pnl
    /\ QtyOf("MSFT") # 0

\* C11: a Position returned by get_position, or contained in the dict returned
\* by get_long_positions / get_short_positions / get_open_positions, is an
\* independent snapshot: a caller's write to it never changes self.positions,
\* and a later accepted on_trade never changes it.
C11_ReturnedPositionsAreSnapshots ==
    [][/\ (\E qty \in -MaxQty..MaxQty : CallerSetsQty(qty)) => positions' = positions
       /\ (AcceptedTradeStep /\ held # NoRef) =>
              Deref(held', positions') = Deref(held, positions)
      ]_vars

\* The symbols that have had an accepted trade, hence a position.
EverTraded == {s \in Symbols : sidesSeen[s] # {}}

\* C12: in every state get_total_pnl() is the sum, over the symbols that have
\* ever had a position, of realized_pnl[sym] + get_unrealized_pnl(sym), a flat
\* unpriced symbol contributing its realized PnL; with no trade yet it is 0.
C12_TotalPnlIsSumOverSymbols ==
    /\ GetTotalPnlRet =
          SumOver([s \in Symbols |-> RAdd(RealizedOf(s), GetUnrealizedPnlRet(s))],
                  EverTraded)
    /\ nTrades = 0 => GetTotalPnlRet = Zero

\* C12 witness: AAPL is flat with realized PnL and was never priced, MSFT is
\* open and priced, and the total is the realized PnL of AAPL plus the
\* unrealized PnL of MSFT.
C12_Witness ==
    /\ "AAPL" \in DOMAIN positions
    /\ QtyOf("AAPL") = 0
    /\ RealizedOf("AAPL") = FromInt(1)
    /\ "AAPL" \notin priced
    /\ QtyOf("MSFT") = 2
    /\ CostOf("MSFT") = FromInt(1)
    /\ "MSFT" \in priced
    /\ last_prices["MSFT"] = Zero
    /\ GetTotalPnlRet = FromInt(-1)

\* C13: get_position, get_unrealized_pnl and get_total_pnl called again with
\* the same arguments, no on_trade or on_price in between, return what they
\* returned before, for traded and untraded symbols alike: a second
\* get_position(s) hands the caller a Position equal to the one it holds.
C13_RepeatedQueriesAgree ==
    [][\A s \in Symbols :
          (GetPositionKeep(s) /\ heldCall = <<"get_position", s>>) => held' = held
      ]_vars

\* C14: for a symbol without an accepted trade get_position returns a
\* Position of the engine's account and that symbol with qty 0 and avg_cost 0,
\* and the symbol is not in the positions table, whatever was called before;
\* for a traded symbol it returns the stored qty and avg_cost.
C14_GetPositionDefaultsWithoutInsert ==
    \A s \in Symbols :
        IF sidesSeen[s] = {}
        THEN /\ GetPositionRet(s) =
                  [account_id |-> "system", symbol |-> s, qty |-> 0, avg_cost |-> Zero]
             /\ s \notin DOMAIN positions
        ELSE /\ s \in DOMAIN positions
             /\ GetPositionRet(s).qty = positions[s].qty
             /\ GetPositionRet(s).qty = sumSigned[s]
             /\ GetPositionRet(s).avg_cost = positions[s].avg_cost
             /\ GetPositionRet(s).symbol = s

\* C14 witness: AAPL is short 2 at cost 1/2; MSFT was never traded, was queried
\* (a read left its key in realized_pnl) and priced, and has no position.
C14_Witness ==
    /\ GetPositionRet("AAPL").qty = -2
    /\ GetPositionRet("AAPL").avg_cost = Rat(1, 2)
    /\ sidesSeen["MSFT"] = {}
    /\ "MSFT" \in DOMAIN realized_pnl
    /\ "MSFT" \in priced
    /\ GetPositionRet("MSFT").qty = 0
    /\ "MSFT" \notin DOMAIN positions

C16_OnPriceOnlySetsLastPrice ==
    /\ [](\A s \in priced :
            /\ s \in DOMAIN last_prices
            /\ last_prices[s] = FromInt(lastTick[s])
            /\ QtyOf(s) # 0 =>
                  GetUnrealizedPnlRet(s) =
                      RScale(QtyOf(s), RSub(FromInt(lastTick[s]), CostOf(s))))
    /\ [][(priced' # priced \/ lastTick' # lastTick) =>
            /\ positions' = positions
            /\ realized_pnl' = realized_pnl
            /\ \E s \in Symbols :
                  /\ DOMAIN last_prices' = DOMAIN last_prices \cup {s}
                  /\ \A o \in DOMAIN last_prices \ {s} : last_prices'[o] = last_prices[o]
          ]_vars

\* C16 witness: AAPL, short 2 at cost 1, was last priced at -1, so its unrealized PnL is -2 * (-1 - 1) = 4; MSFT is priced at 1, flat,
\* with realized PnL.
C16_Witness ==
    /\ QtyOf("AAPL") = -2
    /\ CostOf("AAPL") = FromInt(1)
    /\ priced = {"AAPL", "MSFT"}
    /\ last_prices["AAPL"] = FromInt(-1)
    /\ GetUnrealizedPnlRet("AAPL") = FromInt(4)
    /\ last_prices["MSFT"] = FromInt(1)
    /\ "MSFT" \in DOMAIN positions
    /\ QtyOf("MSFT") = 0
    /\ RealizedOf("MSFT") # Zero

\* C17: the key set of positions is the set of symbols with at least one
\* accepted trade: an entry appears in the step that processes the first
\* accepted trade of its symbol and at no other step, no entry is ever
\* removed, and a symbol closed to flat stays in the table with qty 0 and
\* avg_cost 0.
C17_PositionsKeysOnlyGrow ==
    /\ [](/\ DOMAIN positions = EverTraded
          /\ \A s \in EverTraded :
                sumSigned[s] = 0 =>
                  /\ s \in DOMAIN positions
                  /\ positions[s].qty = 0
                  /\ positions[s].avg_cost = Zero)
    /\ [][/\ DOMAIN positions \subseteq DOMAIN positions'
          /\ (DOMAIN positions' # DOMAIN positions) =>
                (/\ AcceptedTradeStep
                 /\ sidesSeen[logged'[1].symbol] = {}
                 /\ DOMAIN positions' = DOMAIN positions \cup {logged'[1].symbol})
          /\ (AcceptedTradeStep /\ sidesSeen[logged'[1].symbol] = {}) =>
                logged'[1].symbol \notin DOMAIN positions
         ]_vars

\* C17 witness: AAPL, traded three times and closed at a loss of 1, is still
\* in the table, flat at cost 0; MSFT, priced and queried but never traded,
\* has no entry.
C17_Witness ==
    /\ nTrades = 3
    /\ "AAPL" \in DOMAIN positions
    /\ positions["AAPL"].qty = 0
    /\ positions["AAPL"].avg_cost = Zero
    /\ RealizedOf("AAPL") = FromInt(-1)
    /\ "MSFT" \notin DOMAIN positions
    /\ "MSFT" \in priced
    /\ "MSFT" \in DOMAIN realized_pnl
    /\ logged[1].msg = "summary"

\* C18: an accepted on_trade for one symbol leaves every other symbol as it
\* was: its position (qty, avg_cost, and whether it has one), its realized PnL
\* (and whether it has a key) and its last price.
C18_TradeLeavesOtherSymbols ==
    [][AcceptedTradeStep =>
        \A b \in Symbols \ {logged'[1].symbol} :
            /\ (b \in DOMAIN positions') = (b \in DOMAIN positions)
            /\ b \in DOMAIN positions =>
                  /\ positions'[b].qty = positions[b].qty
                  /\ positions'[b].avg_cost = positions[b].avg_cost
            /\ (b \in DOMAIN realized_pnl') = (b \in DOMAIN realized_pnl)
            /\ RealizedAfter(b) = RealizedOf(b)
            /\ (b \in DOMAIN last_prices') = (b \in DOMAIN last_prices)
            /\ b \in DOMAIN last_prices => last_prices'[b] = last_prices[b]
      ]_vars

\* C18 witness: MSFT is long 1 at cost 1, priced at -1, with a realized_pnl key
\* left by a query; the last call was an accepted AAPL trade that realized PnL
\* for AAPL.
C18_Witness ==
    /\ logged[1].msg = "Trade"
    /\ logged[1].symbol = "AAPL"
    /\ "Realized PnL" \in Msgs
    /\ RealizedOf("AAPL") # Zero
    /\ QtyOf("MSFT") = 1
    /\ CostOf("MSFT") = FromInt(1)
    /\ "MSFT" \in DOMAIN realized_pnl
    /\ "MSFT" \in priced
    /\ last_prices["MSFT"] = FromInt(-1)

\* C19: get_pnl_by_symbol(symbol) returns realized = the symbol's realized
\* PnL (0 for a symbol never traded), unrealized = get_unrealized_pnl(symbol)
\* and total = realized + unrealized, in every state, for traded and unknown
\* symbols.
C19_PnlBySymbolFields ==
    \A s \in Symbols :
        LET r == GetPnlBySymbolRet(s)
        IN  /\ DOMAIN r = {"realized", "unrealized", "total"}
            /\ r.realized = RealizedOf(s)
            /\ sidesSeen[s] = {} => r.realized = Zero
            /\ r.unrealized = GetUnrealizedPnlRet(s)
            /\ r.total = RAdd(r.realized, r.unrealized)

\* C19 witness: AAPL has realized PnL 1 and, long 1 at cost 0 and priced at 1,
\* unrealized PnL 1, so its total is 2; MSFT is unknown and gets three zeros.
C19_Witness ==
    /\ GetPnlBySymbolRet("AAPL") =
          [realized |-> FromInt(1), unrealized |-> FromInt(1), total |-> FromInt(2)]
    /\ sidesSeen["MSFT"] = {}
    /\ "MSFT" \in DOMAIN realized_pnl
    /\ GetPnlBySymbolRet("MSFT") =
          [realized |-> Zero, unrealized |-> Zero, total |-> Zero]

\* C20: get_total_notional(price_map) is the sum over the positions of
\* qty * price_map[symbol], a symbol missing from price_map counting at price 0.
\* The sum is a function of price_map and the quantities alone: it is the same
\* whatever last_prices holds, and an on_price call, which leaves positions as
\* they were, does not change it.
C20_TotalNotionalUsesSuppliedMap ==
    /\ [](\A price_map \in PriceMaps :
            GetTotalNotionalRet(price_map) =
                SumOver([s \in Symbols |->
                            RScale(QtyOf(s),
                                   IF s \in DOMAIN price_map THEN price_map[s] ELSE Zero)],
                        Symbols))
    /\ [][(priced' # priced \/ lastTick' # lastTick) => positions' = positions]_vars

\* C20 witness: AAPL is long 2 and priced at -1 by on_price, MSFT is short 1;
\* with AAPL at 1 and MSFT missing from the map the notional is 2, with both
\* at 1 it is 1.
C20_Witness ==
    /\ QtyOf("AAPL") = 2
    /\ QtyOf("MSFT") = -1
    /\ "AAPL" \in priced
    /\ last_prices["AAPL"] = FromInt(-1)
    /\ GetTotalNotionalRet([s \in {"AAPL"} |-> FromInt(1)]) = FromInt(2)
    /\ GetTotalNotionalRet([s \in {"AAPL", "MSFT"} |-> FromInt(1)]) = FromInt(1)

\* C21: in every state the three filters split the table by the sign of qty:
\* get_long_positions holds the symbols with qty > 0, get_short_positions those
\* with qty < 0, the two share no symbol, get_open_positions holds the symbols
\* of both, a flat symbol is in none of them, and each symbol is returned with
\* its Position.
C21_FiltersPartitionBySign ==
    LET long == GetLongPositionsRet
        short == GetShortPositionsRet
        open == GetOpenPositionsRet
    IN  /\ DOMAIN long = {s \in Symbols : sumSigned[s] > 0}
        /\ DOMAIN short = {s \in Symbols : sumSigned[s] < 0}
        /\ DOMAIN long \cap DOMAIN short = {}
        /\ DOMAIN open = DOMAIN long \cup DOMAIN short
        /\ \A s \in Symbols :
              sumSigned[s] = 0 =>
                  s \notin DOMAIN long \cup DOMAIN short \cup DOMAIN open
        /\ \A s \in DOMAIN long : long[s] = positions[s]
        /\ \A s \in DOMAIN short : short[s] = positions[s]
        /\ \A s \in DOMAIN open : open[s] = positions[s]

\* C21 witness: AAPL, bought and sold back, is in the table flat and in no
\* filter; MSFT is short 2 and is the only key of the short and open filters.
C21_Witness ==
    /\ "AAPL" \in DOMAIN positions
    /\ positions["AAPL"].qty = 0
    /\ sidesSeen["AAPL"] = {"BUY", "SELL"}
    /\ QtyOf("MSFT") = -2
    /\ DOMAIN GetLongPositionsRet = {}
    /\ DOMAIN GetShortPositionsRet = {"MSFT"}
    /\ DOMAIN GetOpenPositionsRet = {"MSFT"}

\* C22: in exact arithmetic, after any accepted trades of a symbol,
\* realized_pnl[sym] - qty * avg_cost is minus the sum of signed_qty_i * price_i
\* over those trades; equivalently, for every mark price P,
\* realized_pnl[sym] + qty * (P - avg_cost) is the sum of signed_qty_i * (P - price_i),
\* whatever mix of accumulation, partial closes, full closes and flips they were.
C22_AccountingIdentity ==
    \A s \in Symbols :
        /\ RSub(RealizedOf(s), RScale(QtyOf(s), CostOf(s))) = FromInt(-sumCost[s])
        /\ \A P \in PriceTicks :
              RAdd(RealizedOf(s), RScale(QtyOf(s), RSub(FromInt(P), CostOf(s))))
                  = FromInt(P * sumSigned[s] - sumCost[s])

\* C22 witness: AAPL was accumulated at two prices (cost 1/2) and then flipped
\* by a sell of 3 at 1: short 1 at cost 1, realized PnL 1, signed cost sum -2.
C22_Witness ==
    /\ nTrades = 3
    /\ "Direction flipped" \in Msgs
    /\ logged[1].symbol = "AAPL"
    /\ QtyOf("AAPL") = -1
    /\ CostOf("AAPL") = FromInt(1)
    /\ RealizedOf("AAPL") = FromInt(1)
    /\ sumCost["AAPL"] = -2

\* Order of two rationals, and the extremes of a non-empty set of integers.
RLeq(x, y) == x[1] * y[2] <= y[1] * x[2]
MinOf(S) == CHOOSE m \in S : \A x \in S : m <= x
MaxOf(S) == CHOOSE m \in S : \A x \in S : x <= m

====
